---------------------------- MODULE Spec2Model ----------------------------
(***************************************************************************)
(* Session-authenticated command dispatch of the dual FLIR camera control  *)
(* utilities: the script backend (classes/CameraControl.py) and the HTTP   *)
(* backend (classes/CameraControlAPI.py with script/camera_control.py).    *)
(*                                                                         *)
(* One client instance is modelled.  Its backend is fixed at construction. *)
(* A dispatch runs as a sequence of steps (pc).  When its first command   *)
(* transport call fails, the replies the device gives to a following       *)
(* reauthentication and to a second call are fixed (variable device), the  *)
(* way a stubbed transport fixes them, whether or not the code goes on to  *)
(* ask for them.  Python None is the empty tuple, a present value x is     *)
(* <<x>>; session tokens, script output and wire values are sequences of   *)
(* characters.                                                             *)
(***************************************************************************)
EXTENDS Integers, Sequences, FiniteSets, TLC

(* ----------------------------- bounds ---------------------------------- *)
\* SESSION_TIMEOUT / session_timeout (120.0 s in the source) in clock ticks.
SESSION_TIMEOUT == 2
\* The clock runs MaxSlack ticks beyond the staleness of a session issued
\* at construction time.
MaxSlack == 1
\* time.time() at construction: later than SESSION_TIMEOUT after the 0.0 that
\* last_auth_time / _last_auth start from, as the wall clock always is.
Epoch == SESSION_TIMEOUT + 1
MaxTime == Epoch + SESSION_TIMEOUT + MaxSlack

(* --------------------------- constants.py ------------------------------ *)
FLIR1_IP == "169.254.80.109"
FLIR2_IP == "169.254.50.183"
DEFAULT_CAMERA == "FLIR2"
CAMERA_HOSTS == [a \in {"FLIR1", "FLIR2"} |->
                    IF a = "FLIR1" THEN FLIR1_IP ELSE FLIR2_IP]

(* --------------------------- Python values ----------------------------- *)
None == <<>>
Some(x) == <<x>>
\* Truth value of an Optional[str]: None and "" are falsy.
Truthy(v) == v # None /\ v[1] # <<>>

Whitespace == {" ", "\n"}

RECURSIVE LStrip(_)
LStrip(s) == IF s # <<>> /\ Head(s) \in Whitespace THEN LStrip(Tail(s)) ELSE s

RECURSIVE RStrip(_)
RStrip(s) == IF s # <<>> /\ s[Len(s)] \in Whitespace
             THEN RStrip(SubSeq(s, 1, Len(s) - 1)) ELSE s

\* str.strip()
Strip(s) == RStrip(LStrip(s))

(* ----------------- constants.py: the command registry ------------------ *)
\* Wire values are sequences of characters.
TOKEN_OVERRIDE_PARAMS ==
    [k \in {"tokenoverride", "_"} |-> IF k = "tokenoverride" THEN <<"1">> ELSE <<"0">>]

NoParams == [k \in {} |-> <<>>]

CenterStatic ==
    [k \in {"Active_cam", "Cam_type", "Cam_id"} |-> IF k = "Cam_type" THEN <<"4">> ELSE <<"0">>]

\* A command spec: "static_params" and "params" as CAMERA_COMMANDS has them
\* ("help" and "description" are not modelled).
Command(action, static, params) ==
    [action |-> action, static_params |-> static, params |-> params]

CAMERA_COMMANDS ==
    [c \in {"get_zoom", "get_zoom_fov", "set_zoom", "auto_focus", "get_speed",
            "set_speed", "get_position", "center"} |->
       CASE c = "get_zoom" -> Command("DLTVFOVMagnificationGet", NoParams, <<>>)
         [] c = "get_zoom_fov" -> Command("DLTVZoomDegreesGet", NoParams, <<>>)
         [] c = "set_zoom" -> Command("DLTVFOVMagnificationSet", NoParams,
                                <<[name |-> "Magnification", type |-> "float"]>>)
         [] c = "auto_focus" -> Command("DLTVAutoFocusPush", NoParams, <<>>)
         [] c = "get_speed" -> Command("PTSpeedGet", NoParams, <<>>)
         [] c = "set_speed" -> Command("PTSpeedModeSet", NoParams,
                                <<[name |-> "Azimuth_Speed", type |-> "int"],
                                  [name |-> "Elevation_Speed", type |-> "int"]>>)
         [] c = "get_position" -> Command("PTAzimuthElevationGet", NoParams, <<>>)
         [] c = "center" -> Command("PTAzimuthElevationOnScreenSet", CenterStatic,
                                <<[name |-> "ScreenX", type |-> "float"],
                                  [name |-> "ScreenY", type |-> "float"]>>)]

(* ------------------------- inputs of the model ------------------------- *)
\* Bodies a device can return as a token: script stdout / JSON "Id" string.
Bodies == { <<>>, <<"\n">>, <<"a">>, <<"b", "\n">> }

\* Replies to the script backend's authenticate.sh.
ScriptAuthReplies ==
    { [kind |-> "nonzero", body |-> None], [kind |-> "exception", body |-> None] }
    \cup { [kind |-> "stdout", body |-> Some(b)] : b \in Bodies }

\* Replies to the HTTP backend's SERVERWhoAmI request.  "object" is a JSON
\* object whose SERVERWhoAmI.Id is body (None when the field is missing).
ApiAuthReplies ==
    { [kind |-> "url_error", body |-> None], [kind |-> "bad_json", body |-> None],
      [kind |-> "non_object", body |-> None], [kind |-> "object", body |-> None] }
    \cup { [kind |-> "object", body |-> Some(b)] : b \in Bodies }

AuthReplies(b) == IF b = "script" THEN ScriptAuthReplies ELSE ApiAuthReplies

(* --------------------------- session state ----------------------------- *)
\* Variant: a session is stale from the timeout on.
SessionExpired_AtLimit(t, last) == (t - last) >= SESSION_TIMEOUT

\* _is_session_expired / _session_expired
SessionExpired(t, last) == (t - last) > SESSION_TIMEOUT

\* Variant: the guard does not look at force.
SkipsExchange_IgnoresForce(force, sid, last, t) ==
    Truthy(sid) /\ ~SessionExpired(t, last)

\* The guard that lets authenticate return True without an exchange.
SkipsExchange(force, sid, last, t) ==
    ~force /\ Truthy(sid) /\ ~SessionExpired(t, last)

\* The spec's Authenticated state: token present and issued within timeout.
Authenticated(sid, last, t) == Truthy(sid) /\ (t - last) <= SESSION_TIMEOUT

(* ------------------------------ addressing ----------------------------- *)
TruthyStr(v) == v # None /\ v[1] # ""

\* CameraControlAPI.host: Some(host), or None where the property raises
\* ValueError("Unknown camera alias ...").
HostProperty(alias, override) ==
    IF TruthyStr(override) THEN Some(override[1])
    ELSE IF alias \notin DOMAIN CAMERA_HOSTS THEN None
    ELSE Some(CAMERA_HOSTS[alias])

\* ", ".join(sorted(CAMERA_HOSTS)), as the list of its items
available == <<"FLIR1", "FLIR2">>

\* Variant: the alias is looked up before the host is considered.
resolve_host_AliasFirst(host, camera_alias_) ==
    LET alias == IF TruthyStr(camera_alias_) THEN camera_alias_[1]
                 ELSE DEFAULT_CAMERA
    IN IF alias \notin DOMAIN CAMERA_HOSTS
       THEN [host |-> None, error |-> Some([alias |-> alias, known |-> available])]
       ELSE IF TruthyStr(host) THEN [host |-> Some(host[1]), error |-> None]
       ELSE [host |-> Some(CAMERA_HOSTS[alias]), error |-> None]

\* camera_control.resolve_host(host, camera_alias): the host, or the
\* ValueError with the alias and the known aliases its message gives.
resolve_host(host, camera_alias_) ==
    IF TruthyStr(host) THEN [host |-> Some(host[1]), error |-> None]
    ELSE LET alias == IF TruthyStr(camera_alias_) THEN camera_alias_[1]
                      ELSE DEFAULT_CAMERA
         IN IF alias \in DOMAIN CAMERA_HOSTS
            THEN [host |-> Some(CAMERA_HOSTS[alias]), error |-> None]
            ELSE [host |-> None,
                  error |-> Some([alias |-> alias, known |-> available])]

(* ----------------------------- authenticate ---------------------------- *)
\* What one call of authenticate leaves behind: its return value (or the
\* exception it raises), the session fields, the clock when it returns, the
\* number of exchanges it performed and the token the exchange returned.
AuthOutcome(ret, sid, last, t, n, tok) ==
    [ret |-> ret, session_id |-> sid, last_auth |-> last, now |-> t,
     exchanges |-> n, token |-> tok]

\* Variant: the authentication timestamp is not updated.
ScriptAuthenticate_KeepsTime(force, sid, last, t, reply, d) ==
    IF SkipsExchange(force, sid, last, t)
    THEN AuthOutcome("True", sid, last, t, 0, None)
    ELSE IF reply.kind \in {"nonzero", "exception"}
    THEN AuthOutcome("False", None, last, t + d, 1, None)
    ELSE LET s == Strip(reply.body[1]) IN
         IF s = <<>>
         THEN AuthOutcome("False", Some(s), last, t + d, 1, Some(s))
         ELSE AuthOutcome("True", Some(s), last, t + d, 1, Some(s))

\* Variant: a failed script run stamps the old token as just issued.
ScriptAuthenticate_StampsFailure(force, sid, last, t, reply, d) ==
    IF SkipsExchange(force, sid, last, t)
    THEN AuthOutcome("True", sid, last, t, 0, None)
    ELSE IF reply.kind \in {"nonzero", "exception"}
    THEN AuthOutcome("False", sid, t + d, t + d, 1, None)
    ELSE LET s == Strip(reply.body[1]) IN
         IF s = <<>>
         THEN AuthOutcome("False", Some(s), last, t + d, 1, Some(s))
         ELSE AuthOutcome("True", Some(s), t + d, t + d, 1, Some(s))

\* CameraControl.authenticate(force_auth); the script runs for d ticks.
ScriptAuthenticate(force, sid, last, t, reply, d) ==
    IF SkipsExchange(force, sid, last, t)
    THEN AuthOutcome("True", sid, last, t, 0, None)
    ELSE IF reply.kind \in {"nonzero", "exception"}
    THEN AuthOutcome("False", None, last, t + d, 1, None)
    ELSE LET s == Strip(reply.body[1]) IN
         IF s = <<>>
         THEN AuthOutcome("False", Some(s), last, t + d, 1, Some(s))
         ELSE AuthOutcome("True", Some(s), t + d, t + d, 1, Some(s))

\* CameraControlAPI.authenticate(force); host is HostProperty(...), the
\* request takes d ticks.
ApiAuthenticate(force, sid, last, host, t, reply, d) ==
    IF SkipsExchange(force, sid, last, t)
    THEN AuthOutcome("True", sid, last, t, 0, None)
    ELSE IF host = None
    THEN AuthOutcome("ValueError", sid, last, t, 0, None)
    ELSE IF reply.kind \in {"url_error", "bad_json"}
    THEN AuthOutcome("False", None, 0, t + d, 1, None)
    ELSE IF reply.kind = "non_object"
    THEN AuthOutcome("AttributeError", sid, last, t + d, 1, None)
    ELSE IF ~Truthy(reply.body)
    THEN AuthOutcome("False", None, 0, t + d, 1, reply.body)
    ELSE AuthOutcome("True", reply.body, t + d, t + d, 1, reply.body)

(* ------------------------------- state --------------------------------- *)
VARIABLES
    backend,        \* "script": CameraControl, "api": CameraControlAPI
    camera_ip,      \* CameraControl.camera_ip
    camera_alias,   \* CameraControlAPI.camera_alias
    host_override,  \* CameraControlAPI._host_override
    session_id,     \* session_id of the instance
    last_auth,      \* last_auth_time / _last_auth
    now,            \* time.time()
    pc,             \* position of the running dispatch, "idle" between calls
    op,             \* the running dispatch: its method and arguments
    attempt,        \* loop variable of the script backend's retry loop
    query,          \* execute's local `query`
    result,         \* what the finished dispatch returned or raised, and where
    calls,          \* history: command transport calls of the running dispatch
    auths,          \* history: authenticate calls of the running dispatch
    device,         \* what the device answers after a first command failure
    start,          \* history: the session when the running dispatch started
    acall,          \* history: the authenticate call of the last step, if any
    invalidated,    \* history: how the session was last wiped, "" once used
    issuer,         \* history: the host that issued session_id, if any did
    switched,       \* history: the known alias a of the last set_camera call
                    \* when that call was set_camera(camera_alias=a)
    registry,       \* the module dictionaries CAMERA_COMMANDS and
                    \* TOKEN_OVERRIDE_PARAMS
    input,          \* arguments of the function under check
    output          \* its result

vars == <<backend, camera_ip, camera_alias, host_override, session_id,
          last_auth, now, pc, op, attempt, query, result, calls, auths,
          device, start, acall, invalidated, issuer, switched, registry, input,
          output>>

target == <<camera_ip, camera_alias, host_override, switched>>
session == <<session_id, last_auth, issuer>>
locals == <<op, attempt, query, result, calls, auths, device, start>>

NoOp == [name |-> "", numeric |-> TRUE, command |-> "", params |-> <<>>]
NoQuery == <<>>
NoResult == [value |-> "", exit |-> ""]
NoDevice == [reauth |-> None, cmd2 |-> ""]
NoStart ==
    [session_id |-> None, last_auth |-> 0, valid |-> FALSE, invalidated |-> "",
     issuer |-> None]
NoInput == [fn |-> ""]
NoOutput == <<>>
NoCall == <<>>
NoReply == [kind |-> "", body |-> None]

Durations(t) == {d \in {0, 1} : t + d <= MaxTime}

\* The host an authentication exchange of the instance is addressed to:
\* self.camera_ip, or self._base_url() (None where the host property raises).
ExchangeHost ==
    IF backend = "script" THEN Some(camera_ip)
    ELSE HostProperty(camera_alias, host_override)

\* The record of one authenticate call: its argument, the session and clock
\* it found, the device's reply and what it left behind.
AuthCall(force, reply, a) ==
    [force |-> force, pre_session_id |-> session_id, pre_last_auth |-> last_auth,
     pre_now |-> now, reply |-> IF a.exchanges = 0 THEN NoReply ELSE reply,
     ret |-> a.ret,
     exchanges |-> a.exchanges, token |-> a.token,
     host |-> IF a.exchanges = 0 THEN None ELSE ExchangeHost]

\* self.authenticate(force) of the instance's backend.
Authenticate(force, reply, d) ==
    IF backend = "script"
    THEN ScriptAuthenticate(force, session_id, last_auth, now, reply, d)
    ELSE ApiAuthenticate(force, session_id, last_auth,
                         HostProperty(camera_alias, host_override), now, reply, d)

\* The assignments an authenticate call makes to the instance and the clock.
Authenticates(force, reply, a) ==
    /\ session_id' = a.session_id
    /\ last_auth' = a.last_auth
    /\ now' = a.now
    /\ issuer' = IF a.exchanges = 1 /\ a.token # None /\ a.session_id = a.token
                 THEN ExchangeHost
                 ELSE IF a.session_id = session_id THEN issuer ELSE None
    /\ acall' = Some(AuthCall(force, reply, a))

Init ==
    /\ backend \in {"script", "api"}
    /\ camera_ip = FLIR2_IP
    /\ camera_alias \in {DEFAULT_CAMERA, "FLIR3"}
    /\ backend = "script" => camera_alias = DEFAULT_CAMERA
    /\ host_override = None
    /\ switched = None
    /\ session_id = None
    /\ last_auth = 0
    /\ now = Epoch
    /\ pc = "idle"
    /\ op = NoOp
    /\ attempt = 0
    /\ query = NoQuery
    /\ result = NoResult
    /\ calls = <<>>
    /\ auths = <<>>
    /\ device = NoDevice
    /\ start = NoStart
    /\ acall = NoCall
    /\ invalidated = "new"
    /\ issuer = None
    /\ registry = [commands |-> CAMERA_COMMANDS,
                   token_override |-> TOKEN_OVERRIDE_PARAMS]
    /\ input = NoInput
    /\ output = NoOutput

\* Wall-clock time passes between calls.
Tick ==
    /\ pc = "idle"
    /\ now < MaxTime
    /\ now' = now + 1
    /\ acall' = NoCall
    /\ UNCHANGED <<backend, registry, input, output, target, session, pc, locals, invalidated>>

\* A caller invokes authenticate(force) itself.
CallAuthenticate ==
    /\ pc = "idle"
    /\ \E force \in BOOLEAN, reply \in AuthReplies(backend), d \in Durations(now) :
          Authenticates(force, reply, Authenticate(force, reply, d))
    /\ invalidated' = ""
    /\ UNCHANGED <<backend, registry, input, output, target, pc, locals>>

(* -------------------- CameraControl: dispatch methods ------------------ *)
Getters == {"get_degree_pos", "get_zoom", "get_speed"}
Setters == {"move_camera_to_absolute_pos", "set_zoom"}

\* What a method returns from its failure returns.
FailValue(name) ==
    IF name = "get_degree_pos" THEN "(None, None)"
    ELSE IF name \in Setters THEN "False" ELSE "None"

\* Outcomes of subprocess.run(..., check=True) and of reading its output:
\*   ok     exit status 0 and a JSON object holding the fields read
\*   cpe    CalledProcessError (non-zero exit status)
\*   nojson exit status 0, no "{" in the output
\*   nofield exit status 0, a JSON object without the fields read
\*   exc    any other exception (the script cannot be run, json.loads fails)
\* A setter does not read the output of a script that exits with status 0.
ScriptOutcomes(name) ==
    IF name \in Getters THEN {"ok", "cpe", "nojson", "nofield", "exc"}
    ELSE {"ok", "cpe", "exc"}

CommandFailures == {"cpe", "http_error", "url_error"}

\* The command transport call as the history records it.
Call(tok, host, outcome) == [token |-> tok, host |-> host, outcome |-> outcome]

\* Variant: the method goes on to its loop after a failed authenticate.
InitialAuthFailed_Continue(name) ==
    /\ pc' = "attempt"
    /\ result' = NoResult

\* "if not self.authenticate(): return <failure>"
InitialAuthFailed(name) ==
    /\ pc' = "done"
    /\ result' = [value |-> FailValue(name), exit |-> "auth_initial"]

\* The first statement of every dispatch method: self.authenticate(), and
\* the return that follows when it returns False.
ScriptBegin(name, numeric) ==
    /\ pc = "idle"
    /\ backend = "script"
    /\ \E reply \in ScriptAuthReplies, d \in Durations(now) :
          LET a == Authenticate(FALSE, reply, d) IN
          /\ Authenticates(FALSE, reply, a)
          /\ auths' = <<AuthCall(FALSE, reply, a)>>
          /\ IF a.ret = "True"
             THEN pc' = "attempt" /\ result' = NoResult
             ELSE InitialAuthFailed(name)
    /\ op' = [NoOp EXCEPT !.name = name, !.numeric = numeric]
    /\ start' = [session_id |-> session_id, last_auth |-> last_auth,
                 valid |-> Authenticated(session_id, last_auth, now),
                 invalidated |-> invalidated, issuer |-> issuer]
    /\ invalidated' = ""
    /\ attempt' = 0
    /\ calls' = <<>>
    /\ device' = NoDevice
    /\ UNCHANGED <<backend, registry, input, output, target, query>>

get_degree_pos == ScriptBegin("get_degree_pos", TRUE)

get_zoom == ScriptBegin("get_zoom", TRUE)

get_speed == ScriptBegin("get_speed", TRUE)

\* numeric: whether the arguments can be formatted with ":.2f".
move_camera_to_absolute_pos ==
    \E numeric \in BOOLEAN : ScriptBegin("move_camera_to_absolute_pos", numeric)

set_zoom == \E numeric \in BOOLEAN : ScriptBegin("set_zoom", numeric)

\* Variant: the command line is built once, before the loop.
AttemptToken_Stale == IF calls = <<>> THEN session_id ELSE calls[1].token

\* The session token the command line of an attempt carries: self.session_id
\* as the iteration finds it.

AttemptToken == session_id

\* Variant: the second failure starts one more attempt.
SecondFailure_RetriesAgain(name) ==
    /\ pc' = "attempt"
    /\ result' = NoResult

\* The handler of CalledProcessError on the second attempt: "return <failure>".
SecondFailure(name) ==
    /\ pc' = "done"
    /\ result' = [value |-> FailValue(name), exit |-> "gave_up"]

\* Variant: the loop goes on whatever the forced authenticate returned.
AfterForcedAuth_Continue(name, ret) ==
    /\ pc' = "attempt"
    /\ attempt' = 1
    /\ result' = NoResult

\* "if not self.authenticate(force_auth=True): return <failure>", else the
\* loop goes on to its second iteration.
AfterForcedAuth(name, ret) ==
    IF ret = "True"
    THEN pc' = "attempt" /\ attempt' = 1 /\ result' = NoResult
    ELSE pc' = "done" /\ attempt' = attempt /\
         result' = [value |-> FailValue(name), exit |-> "auth_forced"]

\* The handler of CalledProcessError on the first attempt.  device records
\* the replies the device gives from here on.
FirstFailure(name) ==
    \E reply \in ScriptAuthReplies, d \in Durations(now), o2 \in ScriptOutcomes(name) :
       LET a == Authenticate(TRUE, reply, d) IN
       /\ Authenticates(TRUE, reply, a)
       /\ auths' = Append(auths, AuthCall(TRUE, reply, a))
       /\ device' = [reauth |-> reply, cmd2 |-> o2]
       /\ AfterForcedAuth(name, a.ret)

\* One iteration of "for attempt in range(2)".
ScriptAttempt ==
    /\ pc = "attempt"
    /\ UNCHANGED <<backend, registry, input, output, target, op, query, start, invalidated>>
    /\ IF op.name \in Setters /\ ~op.numeric
       THEN \* formatting the command line raises: "except Exception"
            /\ pc' = "done"
            /\ result' = [value |-> FailValue(op.name), exit |-> "exception"]
            /\ acall' = NoCall
            /\ UNCHANGED <<session, now, attempt, calls, auths, device>>
       ELSE \E o \in ScriptOutcomes(op.name) :
            /\ device.cmd2 # "" => o = device.cmd2
            /\ calls' = Append(calls, Call(AttemptToken, camera_ip, o))
            /\ CASE o = "ok" ->
                      /\ pc' = "done"
                      /\ result' = [value |-> IF op.name \in Setters
                                               THEN "True" ELSE "value",
                                    exit |-> "ok"]
                      /\ acall' = NoCall
                      /\ UNCHANGED <<session, now, attempt, auths, device>>
                 [] o = "nofield" ->
                      /\ pc' = "done"
                      /\ result' = [value |-> FailValue(op.name), exit |-> "nofield"]
                      /\ acall' = NoCall
                      /\ UNCHANGED <<session, now, attempt, auths, device>>
                 [] o = "exc" ->
                      /\ pc' = "done"
                      /\ result' = [value |-> FailValue(op.name), exit |-> "exception"]
                      /\ acall' = NoCall
                      /\ UNCHANGED <<session, now, attempt, auths, device>>
                 [] o = "nojson" ->
                      \* "continue": the next iteration, or the end of the
                      \* loop and of the method, which then returns None
                      /\ IF attempt = 0
                         THEN pc' = "attempt" /\ attempt' = 1 /\ result' = NoResult
                         ELSE pc' = "done" /\ attempt' = attempt /\
                              result' = [value |-> "None", exit |-> "fallthrough"]
                      /\ acall' = NoCall
                      /\ UNCHANGED <<session, now, auths, device>>
                 [] o = "cpe" ->
                      IF attempt = 0
                      THEN FirstFailure(op.name)
                      ELSE /\ SecondFailure(op.name)
                           /\ acall' = NoCall
                           /\ UNCHANGED <<session, now, attempt, auths, device>>

\* The caller takes the result; the instance is idle again.
Return ==
    /\ pc = "done"
    /\ pc' = "idle"
    /\ op' = NoOp
    /\ attempt' = 0
    /\ query' = NoQuery
    /\ result' = NoResult
    /\ calls' = <<>>
    /\ auths' = <<>>
    /\ device' = NoDevice
    /\ start' = NoStart
    /\ acall' = NoCall
    /\ UNCHANGED <<backend, registry, input, output, target, session, now, invalidated>>

\* What a wipe of the session finds: a session still valid, or not; for a
\* wipe during a dispatch, the first step of the dispatch it ran before.
Wiped ==
    IF pc \notin {"resolve", "request"}
    THEN (IF Authenticated(session_id, last_auth, now) THEN "valid" ELSE "stale")
    ELSE IF invalidated = "resolve" THEN "resolve" ELSE pc

\* Variant: the session is kept on a switch.
SetCameraIp_KeepsSession(ip_address, ip, sid, last) ==
    IF ip_address = ""
    THEN [raised |-> "ValueError", camera_ip |-> ip,
          session_id |-> sid, last_auth_time |-> last]
    ELSE [raised |-> "", camera_ip |-> ip_address,
          session_id |-> sid, last_auth_time |-> last]

\* Variant: the session is cleared whatever the address.
SetCameraIp_AlwaysClears(ip_address, ip, sid, last) ==
    IF ip_address = ""
    THEN [raised |-> "ValueError", camera_ip |-> ip,
          session_id |-> sid, last_auth_time |-> last]
    ELSE [raised |-> "", camera_ip |-> ip_address,
          session_id |-> None, last_auth_time |-> 0]

\* The body of CameraControl.set_camera_ip on an instance with the fields
\* (ip, sid, last): the exception it raises, if any, and the fields after.
SetCameraIp(ip_address, ip, sid, last) ==
    IF ip_address = ""
    THEN [raised |-> "ValueError", camera_ip |-> ip,
          session_id |-> sid, last_auth_time |-> last]
    ELSE IF ip_address # ip
    THEN [raised |-> "", camera_ip |-> ip_address,
          session_id |-> None, last_auth_time |-> 0]
    ELSE [raised |-> "", camera_ip |-> ip,
          session_id |-> sid, last_auth_time |-> last]

\* CameraControl.set_camera_ip(ip_address)
set_camera_ip ==
    /\ pc = "idle"
    /\ backend = "script"
    /\ \E ip_address \in {"", FLIR1_IP, FLIR2_IP} :
          LET after == SetCameraIp(ip_address, camera_ip, session_id, last_auth) IN
          /\ camera_ip' = after.camera_ip
          /\ session_id' = after.session_id
          /\ last_auth' = after.last_auth_time
          /\ issuer' = IF after.session_id = session_id THEN issuer ELSE None
          /\ invalidated' = IF after.camera_ip # camera_ip THEN Wiped ELSE invalidated
    /\ acall' = NoCall
    /\ UNCHANGED <<backend, registry, input, output, camera_alias, host_override,
                   switched, now, pc, locals>>

(* ------------------ camera_control.py: pure functions ------------------ *)
\* load_command: the ParsedCommand, or None where it raises ValueError.
load_command(command_name) ==
    IF command_name \notin DOMAIN registry.commands THEN None
    ELSE LET spec == registry.commands[command_name] IN
         Some([name |-> command_name, action |-> spec.action,
               static_params |-> spec.static_params, param_specs |-> spec.params])

Digits == {"0", "1", "2", "3", "4", "5", "6", "7", "8", "9"}

IsDigits(s) == s # <<>> /\ \A i \in 1..Len(s) : s[i] \in Digits

RECURSIVE StripLeadingZeros(_)
StripLeadingZeros(s) ==
    IF Len(s) > 1 /\ Head(s) = "0" THEN StripLeadingZeros(Tail(s)) ELSE s

RECURSIVE StripTrailingZeros(_)
StripTrailingZeros(s) ==
    IF s # <<>> /\ s[Len(s)] = "0"
    THEN StripTrailingZeros(SubSeq(s, 1, Len(s) - 1)) ELSE s

Dot(s) == IF \E i \in 1..Len(s) : s[i] = "."
          THEN CHOOSE i \in 1..Len(s) : s[i] = "." /\ \A j \in 1..(i - 1) : s[j] # "."
          ELSE 0

\* int(value) then str(): None where int() raises.  Unsigned decimal
\* literals only.
ConvertInt(value) ==
    IF IsDigits(value) THEN Some(StripLeadingZeros(value)) ELSE None

\* float(value) then f"{converted:.10g}": None where float() raises.
\* Unsigned literals "d+" and "d+.d+" of fewer than ten digits, which
\* ".10g" renders in full, without exponent and without trailing zeros.
ConvertFloat(value) ==
    LET i == Dot(value) IN
    IF i = 0 THEN ConvertInt(value)
    ELSE LET int == SubSeq(value, 1, i - 1)
             frac == SubSeq(value, i + 1, Len(value)) IN
         IF ~(IsDigits(int) /\ IsDigits(frac)) THEN None
         ELSE LET f == StripTrailingZeros(frac) IN
              Some(IF f = <<>> THEN StripLeadingZeros(int)
                   ELSE StripLeadingZeros(int) \o <<".">> \o f)

UpperCase == <<"T", "R", "U", "E", "F", "A", "L", "S", "Y", "N", "O">>
LowerCase == <<"t", "r", "u", "e", "f", "a", "l", "s", "y", "n", "o">>

\* str.lower() over the characters of the model
Lower(value) ==
    [i \in 1..Len(value) |->
       IF \E k \in 1..Len(UpperCase) : UpperCase[k] = value[i]
       THEN LowerCase[CHOOSE k \in 1..Len(UpperCase) : UpperCase[k] = value[i]]
       ELSE value[i]]

Chars(str) ==
    CASE str = "1" -> <<"1">> [] str = "0" -> <<"0">>
      [] str = "true" -> <<"t", "r", "u", "e">>
      [] str = "false" -> <<"f", "a", "l", "s", "e">>
      [] str = "t" -> <<"t">> [] str = "f" -> <<"f">>
      [] str = "yes" -> <<"y", "e", "s">> [] str = "no" -> <<"n", "o">>
      [] str = "y" -> <<"y">> [] str = "n" -> <<"n">>
      [] str = "on" -> <<"o", "n">> [] str = "off" -> <<"o", "f", "f">>

truthy == {Chars(w) : w \in {"1", "true", "t", "yes", "y", "on"}}
falsy == {Chars(w) : w \in {"0", "false", "f", "no", "n", "off"}}

\* spec.get("type", str)
Converter(spec) == IF "type" \in DOMAIN spec THEN spec.type ELSE "str"

\* Variant: the value is compared as given, without value.lower().
coerce_param_value_CaseSensitive(name, value, spec) ==
    LET converter == Converter(spec) IN
    IF converter = "bool"
    THEN IF value \in truthy THEN Some(<<"1">>)
         ELSE IF value \in falsy THEN Some(<<"0">>)
         ELSE None
    ELSE IF converter = "float" THEN ConvertFloat(value)
    ELSE IF converter = "int" THEN ConvertInt(value)
    ELSE Some(value)

\* Variant: value.strip().lower().
coerce_param_value_Strips(name, value, spec) ==
    LET converter == Converter(spec) IN
    IF converter = "bool"
    THEN LET lower_val == Lower(Strip(value)) IN
         IF lower_val \in truthy THEN Some(<<"1">>)
         ELSE IF lower_val \in falsy THEN Some(<<"0">>)
         ELSE None
    ELSE IF converter = "float" THEN ConvertFloat(value)
    ELSE IF converter = "int" THEN ConvertInt(value)
    ELSE Some(value)

\* coerce_param_value: the wire string, or None where it raises ValueError.
coerce_param_value(name, value, spec) ==
    LET converter == Converter(spec) IN
    IF converter = "bool"
    THEN LET lower_val == Lower(value) IN
         IF lower_val \in truthy THEN Some(<<"1">>)
         ELSE IF lower_val \in falsy THEN Some(<<"0">>)
         ELSE None
    ELSE IF converter = "float" THEN ConvertFloat(value)
    ELSE IF converter = "int" THEN ConvertInt(value)
    ELSE Some(value)

\* dict.update
Update(query_, other) ==
    [k \in DOMAIN query_ \cup DOMAIN other |->
       IF k \in DOMAIN other THEN other[k] ELSE query_[k]]

\* Variant: the override parameters are merged before the command's own.
build_query_OverridesFirst(command, session_, dynamic_params, include_token_params) ==
    LET q0 == [k \in {"session", "action"} |->
                 IF k = "session" THEN session_ ELSE command.action]
        q1 == IF include_token_params THEN Update(q0, registry.token_override) ELSE q0
        q2 == Update(q1, command.static_params)
    IN Update(q2, dynamic_params)

\* build_query.  The "session" entry holds the Optional session value, the
\* "action" entry the action name.
build_query(command, session_, dynamic_params, include_token_params) ==
    LET q0 == [k \in {"session", "action"} |->
                 IF k = "session" THEN session_ ELSE command.action]
        q1 == Update(q0, command.static_params)
        q2 == Update(q1, dynamic_params)
    IN IF include_token_params THEN Update(q2, registry.token_override) ELSE q2

\* Variant: query is command.static_params itself, updated in place.
RegistryAfterBuildQuery_InPlace(command, session_, dynamic_params, include_token_params) ==
    [registry EXCEPT !.commands[command.name].static_params =
        build_query(command, session_, dynamic_params, include_token_params)]

\* The module dictionaries after build_query: query is a new dict, and
\* query.update reads command.static_params and TOKEN_OVERRIDE_PARAMS
\* without writing to them.
RegistryAfterBuildQuery(command, session_, dynamic_params, include_token_params) ==
    registry

(* ---------------------- CameraControlAPI.execute ----------------------- *)
Resolved(error, name, coerced) == [error |-> error, name |-> name, coerced |-> coerced]

\* Variant: a default is not stored.
RECURSIVE ParamLoop_DropsDefault(_, _, _, _)
ParamLoop_DropsDefault(param_specs, params, i, coerced) ==
    IF i > Len(param_specs) THEN Resolved("", "", coerced)
    ELSE LET spec == param_specs[i]
             name == spec.name
             required == IF "required" \in DOMAIN spec THEN spec.required ELSE TRUE
         IN IF name \notin DOMAIN params
            THEN IF required /\ "default" \notin DOMAIN spec
                 THEN Resolved("missing", name, coerced)
                 ELSE ParamLoop_DropsDefault(param_specs, params, i + 1, coerced)
            ELSE LET c == coerce_param_value(name, params[name], spec) IN
                 IF c = None THEN Resolved("invalid", name, coerced)
                 ELSE ParamLoop_DropsDefault(param_specs, params, i + 1,
                                Update(coerced, [k \in {name} |-> c[1]]))

\* Variant: spec.get("required", False).
RECURSIVE ParamLoop_OptionalByDefault(_, _, _, _)
ParamLoop_OptionalByDefault(param_specs, params, i, coerced) ==
    IF i > Len(param_specs) THEN Resolved("", "", coerced)
    ELSE LET spec == param_specs[i]
             name == spec.name
             required == IF "required" \in DOMAIN spec THEN spec.required ELSE FALSE
         IN IF name \notin DOMAIN params
            THEN IF required /\ "default" \notin DOMAIN spec
                 THEN Resolved("missing", name, coerced)
                 ELSE IF "default" \in DOMAIN spec
                 THEN ParamLoop_OptionalByDefault(param_specs, params, i + 1,
                                Update(coerced, [k \in {name} |-> spec.default]))
                 ELSE ParamLoop_OptionalByDefault(param_specs, params, i + 1, coerced)
            ELSE LET c == coerce_param_value(name, params[name], spec) IN
                 IF c = None THEN Resolved("invalid", name, coerced)
                 ELSE ParamLoop_OptionalByDefault(param_specs, params, i + 1,
                                Update(coerced, [k \in {name} |-> c[1]]))

\* The loop "for spec in parsed_command.param_specs" from its i-th spec on.
\* A default is the str() of the spec's "default" entry.
RECURSIVE ParamLoop(_, _, _, _)
ParamLoop(param_specs, params, i, coerced) ==
    IF i > Len(param_specs) THEN Resolved("", "", coerced)
    ELSE LET spec == param_specs[i]
             name == spec.name
             required == IF "required" \in DOMAIN spec THEN spec.required ELSE TRUE
         IN IF name \notin DOMAIN params
            THEN IF required /\ "default" \notin DOMAIN spec
                 THEN Resolved("missing", name, coerced)
                 ELSE IF "default" \in DOMAIN spec
                 THEN ParamLoop(param_specs, params, i + 1,
                                Update(coerced, [k \in {name} |-> spec.default]))
                 ELSE ParamLoop(param_specs, params, i + 1, coerced)
            ELSE LET c == coerce_param_value(name, params[name], spec) IN
                 IF c = None THEN Resolved("invalid", name, coerced)
                 ELSE ParamLoop(param_specs, params, i + 1,
                                Update(coerced, [k \in {name} |-> c[1]]))

\* Variant: extras are not checked.
ResolveParams_NoExtras(param_specs, params) ==
    ParamLoop(param_specs, params, 1, NoParams)

\* The parameter loop and the check for extras that follows it.
ResolveParams(param_specs, params) ==
    LET expected == {param_specs[i].name : i \in 1..Len(param_specs)}
        r == ParamLoop(param_specs, params, 1, NoParams)
        extras == DOMAIN params \ expected
    IN IF r.error # "" THEN r
       ELSE IF extras # {} THEN Resolved("unexpected", "", r.coerced)
       ELSE r

\* Outcomes of issue_request: a JSON body, any other body (returned under
\* "raw"), HTTPError, URLError.
ApiOutcomes == {"ok", "raw", "http_error", "url_error"}

V(str) ==
    CASE str = "2.0" -> <<"2", ".", "0">>
      [] str = "x" -> <<"x">>

Params1(k, v) == [n \in {k} |-> V(v)]

\* The calls of execute the model makes: command name and keyword arguments
\* (each argument as str() renders it).
Requests ==
    { [command |-> "get_zoom", params |-> NoParams],
      [command |-> "set_zoom", params |-> Params1("Magnification", "2.0")],
      [command |-> "reboot", params |-> NoParams],
      [command |-> "set_zoom", params |-> NoParams],
      [command |-> "set_zoom", params |-> Params1("Magnification", "x")],
      [command |-> "get_zoom", params |-> Params1("Bogus", "2.0")] }

\* The convenience wrapper whose call of execute this is: get_zoom() calls
\* execute("get_zoom") and set_zoom(m) calls execute("set_zoom",
\* Magnification=m); "" for a call no wrapper makes.
WrapperOf(command, params) ==
    IF command = "get_zoom" /\ DOMAIN params = {} THEN "get_zoom"
    ELSE IF command = "set_zoom" /\ DOMAIN params = {"Magnification"}
    THEN "set_zoom"
    ELSE ""

\* What the wrapper does with the end of its execute call: "except
\* (RuntimeError, ValueError)" returns None (get_zoom) or False (set_zoom),
\* any other exception propagates; after a return of execute set_zoom returns
\* True and get_zoom reads the payload (None when the body is under "raw").
Wrapper(name, executed) ==
    IF executed.exit = "ok"
    THEN [raised |-> "",
          value |-> IF name = "set_zoom" THEN "True"
                    ELSE IF executed.value = "raw" THEN "None" ELSE "payload"]
    ELSE IF executed.value \in {"RuntimeError", "ValueError"}
    THEN [raised |-> "", value |-> IF name = "set_zoom" THEN "False" ELSE "None"]
    ELSE [raised |-> executed.value, value |-> ""]

\* Variant: the command and its parameters are checked before
\* authenticate() is called.
execute_ResolvesFirst ==
    /\ pc = "idle"
    /\ backend = "api"
    /\ \E request \in Requests, reply \in ApiAuthReplies, d \in Durations(now) :
          LET parsed_command == load_command(request.command)
              bad == \/ parsed_command = None
                     \/ ResolveParams(parsed_command[1].param_specs,
                                      request.params).error # ""
              a == Authenticate(FALSE, reply, d)
          IN
          /\ op' = [NoOp EXCEPT !.name = "execute", !.command = request.command,
                                !.params = request.params]
          /\ IF bad
             THEN /\ pc' = "done"
                  /\ result' = [value |-> "ValueError", exit |-> "invalid"]
                  /\ auths' = <<>>
                  /\ acall' = NoCall
                  /\ UNCHANGED <<session, now>>
             ELSE /\ Authenticates(FALSE, reply, a)
                  /\ auths' = <<AuthCall(FALSE, reply, a)>>
                  /\ IF a.ret = "True"
                     THEN pc' = "resolve" /\ result' = NoResult
                     ELSE pc' = "done" /\
                          result' = IF a.ret = "False"
                                    THEN [value |-> "RuntimeError", exit |-> "auth_initial"]
                                    ELSE [value |-> a.ret, exit |-> "auth_raised"]
    /\ start' = [session_id |-> session_id, last_auth |-> last_auth,
                 valid |-> Authenticated(session_id, last_auth, now),
                 invalidated |-> invalidated, issuer |-> issuer]
    /\ invalidated' = ""
    /\ attempt' = 0
    /\ calls' = <<>>
    /\ device' = NoDevice
    /\ UNCHANGED <<backend, registry, input, output, target, query>>

\* execute, lines 102-103: self.authenticate() and the RuntimeError raised
\* when it returns False; an exception of authenticate propagates.
execute ==
    /\ pc = "idle"
    /\ backend = "api"
    /\ \E request \in Requests, reply \in ApiAuthReplies, d \in Durations(now) :
          LET a == Authenticate(FALSE, reply, d) IN
          /\ Authenticates(FALSE, reply, a)
          /\ auths' = <<AuthCall(FALSE, reply, a)>>
          /\ op' = [NoOp EXCEPT !.name = "execute", !.command = request.command,
                                !.params = request.params]
          /\ IF a.ret = "True"
             THEN pc' = "resolve" /\ result' = NoResult
             ELSE pc' = "done" /\
                  result' = IF a.ret = "False"
                            THEN [value |-> "RuntimeError", exit |-> "auth_initial"]
                            ELSE [value |-> a.ret, exit |-> "auth_raised"]
    /\ start' = [session_id |-> session_id, last_auth |-> last_auth,
                 valid |-> Authenticated(session_id, last_auth, now),
                 invalidated |-> invalidated, issuer |-> issuer]
    /\ invalidated' = ""
    /\ attempt' = 0
    /\ calls' = <<>>
    /\ device' = NoDevice
    /\ UNCHANGED <<backend, registry, input, output, target, query>>

\* Variant: the token is the one the call's own authenticate() left.
QuerySession_AtAuthentication ==
    IF auths[1].exchanges = 1 THEN auths[1].token ELSE start.session_id

\* execute, line 131: session=self.session_id, read when the query is built.
QuerySession == session_id

\* execute, lines 105-134: load_command, the parameters, build_query.
ExecuteResolve ==
    /\ pc = "resolve"
    /\ LET parsed_command == load_command(op.command) IN
       IF parsed_command = None
       THEN /\ pc' = "done"
            /\ result' = [value |-> "ValueError", exit |-> "unknown_command"]
            /\ UNCHANGED <<query, registry>>
       ELSE LET r == ResolveParams(parsed_command[1].param_specs, op.params) IN
            IF r.error # ""
            THEN /\ pc' = "done"
                 /\ result' = [value |-> "ValueError", exit |-> r.error]
                 /\ UNCHANGED <<query, registry>>
            ELSE /\ pc' = "request"
                 /\ result' = result
                 /\ query' = build_query(parsed_command[1], QuerySession, r.coerced, TRUE)
                 /\ registry' = RegistryAfterBuildQuery(parsed_command[1], QuerySession,
                                                        r.coerced, TRUE)
    /\ acall' = NoCall
    /\ UNCHANGED <<backend, input, output, invalidated, target, session, now, op, attempt, calls, auths,
                   device, start>>

\* issue_request's RuntimeError propagates out of execute; the device would
\* have answered a reauthentication and a second request as device says.
RequestFailed ==
    \E reply \in ApiAuthReplies, o2 \in ApiOutcomes :
       /\ device' = [reauth |-> reply, cmd2 |-> o2]
       /\ pc' = "done"
       /\ result' = [value |-> "RuntimeError", exit |-> "transport"]
       /\ acall' = NoCall
       /\ UNCHANGED <<session, now, auths>>

\* execute, lines 136-140: issue_request(self._base_url(), query, ...).
ExecuteRequest ==
    /\ pc = "request"
    /\ LET host == HostProperty(camera_alias, host_override) IN
       IF host = None
       THEN /\ pc' = "done"
            /\ result' = [value |-> "ValueError", exit |-> "unknown_camera"]
            /\ acall' = NoCall
            /\ UNCHANGED <<session, now, calls, auths, device>>
       ELSE \E o \in ApiOutcomes :
            /\ device.cmd2 # "" => o = device.cmd2
            /\ calls' = Append(calls, Call(query["session"], host[1], o))
            /\ IF o \in CommandFailures
               THEN RequestFailed
               ELSE /\ pc' = "done"
                    /\ result' = [value |-> IF o = "raw" THEN "raw" ELSE "payload",
                                  exit |-> "ok"]
                    /\ acall' = NoCall
                    /\ UNCHANGED <<session, now, auths, device>>
    /\ UNCHANGED <<backend, registry, input, output, target, op, attempt, query, start, invalidated>>

\* Variant: the session survives.
InvalidateSession_Keeps == UNCHANGED <<session_id, last_auth, issuer>>

\* The body of CameraControlAPI.invalidate_session.
InvalidateSession ==
    /\ session_id' = None
    /\ last_auth' = 0
    /\ issuer' = None

\* CameraControlAPI.set_camera(camera_alias, host), which ends with
\* self.invalidate_session()
SetCamera ==
    /\ backend = "api"
    /\ \E alias \in {None, Some("FLIR1"), Some("FLIR2"), Some("FLIR3")},
          host \in {None, Some(FLIR1_IP)} :
          /\ camera_alias' = IF alias # None THEN alias[1] ELSE camera_alias
          /\ host_override' = IF host # None THEN host ELSE host_override
          /\ switched' = IF alias # None /\ host = None
                             /\ alias[1] \in DOMAIN CAMERA_HOSTS
                          THEN alias ELSE None
    /\ InvalidateSession
    /\ invalidated' = Wiped
    /\ acall' = NoCall
    /\ UNCHANGED <<backend, registry, input, output, camera_ip, now, pc, locals>>

\* set_camera called between two dispatches.
set_camera == pc = "idle" /\ SetCamera

\* CameraControlAPI.invalidate_session, called on its own
InvalidateSessionCall ==
    /\ backend = "api"
    /\ InvalidateSession
    /\ invalidated' = Wiped
    /\ acall' = NoCall
    /\ UNCHANGED <<backend, registry, input, output, target, now, pc, locals>>

\* invalidate_session called between two dispatches.
invalidate_session == pc = "idle" /\ InvalidateSessionCall

(* --------------------------- specification ----------------------------- *)
\* Calls on the instance are serialized: a method is called only when no
\* other is running.
Next ==
    \/ Tick
    \/ CallAuthenticate
    \/ get_degree_pos
    \/ get_zoom
    \/ get_speed
    \/ move_camera_to_absolute_pos
    \/ set_zoom
    \/ ScriptAttempt
    \/ set_camera_ip
    \/ execute
    \/ ExecuteResolve
    \/ ExecuteRequest
    \/ set_camera
    \/ invalidate_session
    \/ Return

Spec == Init /\ [][Next]_vars

(* ---------------- a second thread switching the target ----------------- *)
\* The instance has no lock: another thread's set_camera or
\* invalidate_session can run between the steps of execute, after its
\* authenticate() and before its request.
SetCameraInFlight == pc \in {"resolve", "request"} /\ SetCamera

InvalidateSessionInFlight == pc \in {"resolve", "request"} /\ InvalidateSessionCall

InitInterleaved == Init /\ backend = "api"

NextInterleaved ==
    \/ Tick
    \/ CallAuthenticate
    \/ execute
    \/ ExecuteResolve
    \/ ExecuteRequest
    \/ set_camera
    \/ invalidate_session
    \/ Return
    \/ SetCameraInFlight
    \/ InvalidateSessionInFlight

SpecInterleaved == InitInterleaved /\ [][NextInterleaved]_vars

(* ------------- the functions of a dispatch, on arguments --------------- *)
\* camera_control.main: the loop "for spec in command.param_specs" from its
\* i-th spec on; a supplied value is popped from provided_params.
RECURSIVE MainParamLoop(_, _, _, _)
MainParamLoop(param_specs, provided_params, i, coerced_params) ==
    IF i > Len(param_specs)
    THEN [error |-> "", name |-> "", coerced |-> coerced_params,
          provided |-> provided_params]
    ELSE LET spec == param_specs[i]
             name == spec.name
             required == IF "required" \in DOMAIN spec THEN spec.required ELSE TRUE
         IN IF name \notin DOMAIN provided_params
            THEN IF required /\ "default" \notin DOMAIN spec
                 THEN [error |-> "missing", name |-> name,
                       coerced |-> coerced_params, provided |-> provided_params]
                 ELSE IF "default" \in DOMAIN spec
                 THEN MainParamLoop(param_specs, provided_params, i + 1,
                          Update(coerced_params, [k \in {name} |-> spec.default]))
                 ELSE MainParamLoop(param_specs, provided_params, i + 1,
                                    coerced_params)
            ELSE LET c == coerce_param_value(name, provided_params[name], spec)
                     rest == [k \in DOMAIN provided_params \ {name} |->
                                provided_params[k]]
                 IN IF c = None
                    THEN [error |-> "invalid", name |-> name,
                          coerced |-> coerced_params, provided |-> rest]
                    ELSE MainParamLoop(param_specs, rest, i + 1,
                             Update(coerced_params, [k \in {name} |-> c[1]]))

\* Variant: undeclared names are looked for before the loop.
MainResolveParams_ExtrasFirst(param_specs, provided_params) ==
    LET r == MainParamLoop(param_specs, provided_params, 1, NoParams)
        declared == {param_specs[i].name : i \in 1..Len(param_specs)}
    IN IF DOMAIN provided_params \ declared # {}
       THEN Resolved("unexpected", "", NoParams)
       ELSE Resolved(r.error, r.name, r.coerced)

\* camera_control.main: the loop and "if provided_params" after it.
MainResolveParams(param_specs, provided_params) ==
    LET r == MainParamLoop(param_specs, provided_params, 1, NoParams) IN
    IF r.error # "" THEN Resolved(r.error, r.name, r.coerced)
    ELSE IF DOMAIN r.provided # {} THEN Resolved("unexpected", "", r.coerced)
    ELSE Resolved("", "", r.coerced)

\* Parameter specs as a registry entry may declare them: a type, and
\* optionally "required" and "default".  A default is held as str() renders
\* it: str(True), str(2.0).
DefaultTrue == <<"T", "r", "u", "e">>
DefaultFloat == <<"2", ".", "0">>

ParamSpec(name, type, required, default) ==
    LET base == [k \in {"name", "type"} |-> IF k = "name" THEN name ELSE type]
        req == IF required = None THEN base
               ELSE Update(base, [k \in {"required"} |-> required[1]])
    IN IF default = None THEN req
       ELSE Update(req, [k \in {"default"} |-> default[1]])

ParamSpecsOf(name) ==
    {ParamSpec(name, type, required, default) :
        type \in {"float", "bool"},
        required \in {None, Some(FALSE)},
        default \in {None, Some(DefaultTrue), Some(DefaultFloat)}}

ParamSpecLists ==
    {<<>>} \cup {<<a>> : a \in ParamSpecsOf("A")}
           \cup {<<a, b>> : a \in ParamSpecsOf("A"), b \in ParamSpecsOf("B")}

\* Supplied parameters: any of the declared names and one undeclared name,
\* each with a float literal, a boolean word or a word that is neither.
SuppliedValues == {<<"2", ".", "0">>, <<"T">>, <<"x">>}

SuppliedParams ==
    UNION {[names -> SuppliedValues] : names \in SUBSET {"A", "B", "Z"}}

ResolveInputs ==
    {[fn |-> "resolve", param_specs |-> l, params |-> ps] :
        l \in ParamSpecLists, ps \in SuppliedParams}

\* str.upper() of one character of the model.
Upper(c) ==
    IF \E k \in 1..Len(LowerCase) : LowerCase[k] = c
    THEN UpperCase[CHOOSE k \in 1..Len(LowerCase) : LowerCase[k] = c]
    ELSE c

\* The word in every mix of upper and lower case.
RECURSIVE CaseVariants(_)
CaseVariants(word) ==
    IF word = <<>> THEN {<<>>}
    ELSE {<<c>> \o rest : c \in {Head(word), Upper(Head(word))},
                          rest \in CaseVariants(Tail(word))}

\* Values for a bool parameter: the accepted words in every case, the same
\* with whitespace before or after, and words that are near misses.
BoolWords == UNION {CaseVariants(w) : w \in truthy \cup falsy}

Padded(words) ==
    UNION {{<<ws>> \o w, w \o <<ws>>} : w \in words, ws \in {" ", "\n", "\t"}}

OtherWords ==
    {<<>>, <<"2">>, <<"1", "0">>, <<"0", "1">>, <<"x">>, <<"t", "r", "u">>,
     <<"y", "e", "s", "s">>, <<"o">>, <<"n", "o", "n">>, <<"o", "f">>,
     <<"T", "r", "u", "e", "e">>, <<" ">>, <<"1", ".", "0">>}

CoerceInputs ==
    {[fn |-> "coerce", name |-> "Flag", value |-> v,
      spec |-> [name |-> "Flag", type |-> "bool"]] :
        v \in BoolWords \cup Padded(truthy \cup falsy) \cup OtherWords}

\* Arguments of build_query: static and dynamic parameters over keys that
\* collide with each other, with "session" and "action" and with the
\* override keys; each value tells its source.
StaticKeys == {"Cam_id", "tokenoverride", "_", "action"}
DynamicKeys == {"Cam_id", "ScreenX", "tokenoverride", "_", "session"}

QueryInputs ==
    {[fn |-> "build_query",
      command |-> [action |-> <<"A">>,
                   static_params |-> [k \in sk |-> <<"s">>]],
      session |-> <<"t">>,
      dynamic_params |-> [k \in dk |-> <<"d">>],
      include_token_params |-> inc] :
        sk \in SUBSET StaticKeys, dk \in SUBSET DynamicKeys, inc \in BOOLEAN}

\* A host override and an alias, either of them absent, empty or unknown.
AddressInputs ==
    {[fn |-> f, host |-> h, camera |-> c] :
        f \in {"resolve_host", "host"},
        h \in {None, Some(""), Some(FLIR1_IP), Some("10.0.0.9")},
        c \in {None, Some(""), Some("FLIR1"), Some("FLIR2"), Some("FLIR3")}}

\* An instance of CameraControl, with or without a session, and an address.
SetIpInputs ==
    {[fn |-> "set_camera_ip", ip_address |-> a, camera_ip |-> ip,
      session_id |-> sid, last_auth_time |-> last] :
        a \in {"", FLIR1_IP, FLIR2_IP}, ip \in {FLIR1_IP, FLIR2_IP},
        sid \in {None, Some(<<>>), Some(<<"a">>)}, last \in {0, Epoch}}

\* Largest --retries the model draws.
MaxRetries == 3

\* Arguments of wait_for_host: retries is any int and delay any float
\* (argparse type=int / type=float), here by its sign.
WaitInputs ==
    {[fn |-> "wait_for_host", host |-> FLIR1_IP, retries |-> n, delay |-> d] :
        n \in -1..MaxRetries, d \in {-1, 0, 1}}

Inputs ==
    ResolveInputs \cup CoerceInputs \cup QueryInputs \cup AddressInputs
        \cup SetIpInputs \cup WaitInputs

\* coerce_param_value on the arguments.
Coerce ==
    /\ input.fn = "coerce" /\ output = NoOutput
    /\ output' = Some([by |-> "coerce_param_value",
                       r |-> coerce_param_value(input.name, input.value, input.spec)])
    /\ UNCHANGED <<backend, registry, target, session, now, pc, locals, acall,
                   invalidated, input>>

\* The parameter resolution of CameraControlAPI.execute on the arguments.
ExecuteParams ==
    /\ input.fn = "resolve" /\ output = NoOutput
    /\ output' = Some([by |-> "execute",
                       r |-> ResolveParams(input.param_specs, input.params)])
    /\ UNCHANGED <<backend, registry, target, session, now, pc, locals, acall,
                   invalidated, input>>

\* The parameter resolution of camera_control.main on the arguments.
MainParams ==
    /\ input.fn = "resolve" /\ output = NoOutput
    /\ output' = Some([by |-> "main",
                       r |-> MainResolveParams(input.param_specs, input.params)])
    /\ UNCHANGED <<backend, registry, target, session, now, pc, locals, acall,
                   invalidated, input>>

InitFunctions ==
    /\ input \in Inputs
    /\ output = NoOutput
    /\ backend = "api"
    /\ camera_ip = FLIR2_IP
    /\ camera_alias = DEFAULT_CAMERA
    /\ host_override = None
    /\ switched = None
    /\ session_id = None
    /\ last_auth = 0
    /\ now = Epoch
    /\ pc = "idle"
    /\ op = NoOp
    /\ attempt = 0
    /\ query = NoQuery
    /\ result = NoResult
    /\ calls = <<>>
    /\ auths = <<>>
    /\ device = NoDevice
    /\ start = NoStart
    /\ acall = NoCall
    /\ invalidated = "new"
    /\ issuer = None
    /\ registry = [commands |-> CAMERA_COMMANDS,
                   token_override |-> TOKEN_OVERRIDE_PARAMS]

\* build_query on the arguments.
BuildQuery ==
    /\ input.fn = "build_query" /\ output = NoOutput
    /\ output' = Some([by |-> "build_query",
                       r |-> build_query(input.command, input.session,
                                         input.dynamic_params,
                                         input.include_token_params)])
    /\ UNCHANGED <<backend, registry, target, session, now, pc, locals, acall,
                   invalidated, input>>

\* resolve_host on the arguments.
ResolveHost ==
    /\ input.fn = "resolve_host" /\ output = NoOutput
    /\ output' = Some([by |-> "resolve_host",
                       r |-> resolve_host(input.host, input.camera)])
    /\ UNCHANGED <<backend, registry, target, session, now, pc, locals, acall,
                   invalidated, input>>

\* CameraControlAPI(camera_alias, host), an omitted camera_alias being
\* DEFAULT_CAMERA: the host property, and the first authenticate() of the
\* instance, which reads it.
ApiHost ==
    /\ input.fn = "host" /\ output = NoOutput
    /\ \E reply \in ApiAuthReplies :
         LET alias == IF input.camera = None THEN DEFAULT_CAMERA
                      ELSE input.camera[1]
             host == HostProperty(alias, input.host)
         IN output' = Some([by |-> "host", alias |-> alias, r |-> host,
                            auth |-> ApiAuthenticate(FALSE, None, 0, host,
                                                     now, reply, 0)])
    /\ UNCHANGED <<backend, registry, target, session, now, pc, locals, acall,
                   invalidated, input>>

\* CameraControl.set_camera_ip on the instance and the address.
SetCameraIpCall ==
    /\ input.fn = "set_camera_ip" /\ output = NoOutput
    /\ output' = Some([by |-> "set_camera_ip",
                       r |-> SetCameraIp(input.ip_address, input.camera_ip,
                                         input.session_id, input.last_auth_time)])
    /\ UNCHANGED <<backend, registry, target, session, now, pc, locals, acall,
                   invalidated, input>>

\* Variant: one attempt more than retries.
AttemptRange_FromZero(retries) == 0..retries

\* wait_for_host, line 160: range(1, retries + 1)
AttemptRange(retries) == 1..retries

\* What a connection attempt ends with: connect_ex returns 0, connect_ex
\* returns an error number, connect_ex raises OSError.
ConnectOutcomes == {"connected", "errno", "OSError"}

\* wait_for_host, lines 155-160: the early return and the loop's start.
WaitForHost ==
    /\ input.fn = "wait_for_host" /\ output = NoOutput /\ pc = "idle"
    /\ IF input.retries <= 0
       THEN /\ output' = Some([by |-> "wait_for_host", r |-> "None"])
            /\ UNCHANGED <<pc, attempt>>
       ELSE /\ pc' = "connect"
            /\ attempt' = CHOOSE a \in AttemptRange(input.retries) :
                              \A b \in AttemptRange(input.retries) : a <= b
            /\ UNCHANGED output
    /\ UNCHANGED <<backend, registry, target, session, now, op, query, result,
                   calls, auths, device, start, acall, invalidated, input>>

\* wait_for_host, lines 161-170: one pass of the loop.  sock.settimeout and
\* time.sleep raise ValueError on a negative delay, and settimeout comes
\* first; after a failed attempt the loop goes on, or is exhausted and
\* RuntimeError is raised.
WaitForHostAttempt ==
    /\ input.fn = "wait_for_host" /\ pc = "connect"
    /\ IF input.delay < 0
       THEN /\ output' = Some([by |-> "wait_for_host", r |-> "ValueError"])
            /\ pc' = "idle"
            /\ UNCHANGED <<attempt, calls>>
       ELSE \E o \in ConnectOutcomes :
            /\ calls' = Append(calls, Call(None, input.host, o))
            /\ IF o = "connected"
               THEN /\ output' = Some([by |-> "wait_for_host", r |-> "None"])
                    /\ pc' = "idle"
                    /\ UNCHANGED attempt
               ELSE IF attempt + 1 \in AttemptRange(input.retries)
               THEN /\ attempt' = attempt + 1
                    /\ UNCHANGED <<pc, output>>
               ELSE /\ output' = Some([by |-> "wait_for_host",
                                       r |-> "RuntimeError"])
                    /\ pc' = "idle"
                    /\ UNCHANGED attempt
    /\ UNCHANGED <<backend, registry, target, session, now, op, query, result,
                   auths, device, start, acall, invalidated, input>>

NextFunctions ==
    \/ ExecuteParams
    \/ MainParams
    \/ Coerce
    \/ BuildQuery
    \/ ResolveHost
    \/ ApiHost
    \/ SetCameraIpCall
    \/ WaitForHost
    \/ WaitForHostAttempt

SpecFunctions == InitFunctions /\ [][NextFunctions]_vars


(* ------------------------------- claims -------------------------------- *)
\* Authenticate calls of the running dispatch that were forced and made an
\* exchange.
ForcedAuths == Cardinality({i \in 1..Len(auths) : auths[i].force /\ auths[i].exchanges = 1})

\* A reply that holds a usable token.
TokenReply(reply) ==
    \/ reply.kind = "stdout" /\ Strip(reply.body[1]) # <<>>
    \/ reply.kind = "object" /\ Truthy(reply.body)

\* The first command transport call of the finished dispatch failed.
FirstCallFailed ==
    pc = "done" /\ Len(calls) >= 1 /\ calls[1].outcome \in CommandFailures

\* C1: a dispatch that starts from a valid session, whose first transport
\* call fails, and to which the device answers the forced reauthentication
\* with a token and the second transport call with success, succeeds after
\* exactly one forced authentication exchange and exactly two transport
\* calls, on either backend.
C1_RetrySucceeds ==
    (FirstCallFailed /\ start.valid /\ TokenReply(device.reauth) /\ device.cmd2 = "ok")
        => (result.exit = "ok" /\ ForcedAuths = 1 /\ Len(calls) = 2)

\* The same scenario on the script backend alone.
RetrySucceedsScript ==
    (backend = "script" /\ FirstCallFailed /\ start.valid
        /\ TokenReply(device.reauth) /\ device.cmd2 = "ok")
        => (result.exit = "ok" /\ ForcedAuths = 1 /\ Len(calls) = 2)

RetrySucceedsScriptReached ==
    backend = "script" /\ FirstCallFailed /\ start.valid /\ result.exit = "ok"

\* C2: a dispatch whose first transport call fails, and to which the device
\* answers the forced reauthentication with a token and the second transport
\* call with a failure again, reports command failure after exactly two
\* transport calls and exactly one forced reauthentication; no dispatch
\* makes a third transport call.
C2_DoubleFailure ==
    /\ Len(calls) <= 2
    /\ (FirstCallFailed /\ TokenReply(device.reauth) /\ device.cmd2 \in CommandFailures)
          => (result.exit \in {"gave_up", "transport"}
              /\ Len(calls) = 2 /\ ForcedAuths = 1)

\* The same scenario on the script backend alone.
DoubleFailureScript ==
    /\ Len(calls) <= 2
    /\ (backend = "script" /\ FirstCallFailed /\ TokenReply(device.reauth)
           /\ device.cmd2 \in CommandFailures)
          => (result.exit = "gave_up" /\ Len(calls) = 2 /\ ForcedAuths = 1)

\* C3: the second transport call of a dispatch that retries after a
\* successful forced reauthentication carries the token that
\* reauthentication returned.
C3_RetryCarriesNewToken ==
    (Len(calls) = 2 /\ Len(auths) = 2 /\ auths[2].force /\ auths[2].ret = "True")
        => (calls[2].token = auths[2].token /\ calls[2].token = session_id)

C3_Witness ==
    /\ Len(calls) = 2 /\ Len(auths) = 2 /\ auths[2].force /\ auths[2].ret = "True"
    /\ calls[1].token # calls[2].token

\* C4: a dispatch whose initial authenticate returns failure ends at once
\* with its authentication failure: no command transport call and no second
\* authenticate call are made.
C4_InitialAuthFailureIsTerminal ==
    (Len(auths) >= 1 /\ auths[1].ret = "False")
        => (pc = "done" /\ result.exit = "auth_initial" /\ calls = <<>>
            /\ Len(auths) = 1 /\ auths[1].exchanges = 1
            /\ result.value = (IF backend = "api" THEN "RuntimeError"
                               ELSE FailValue(op.name)))

C4_Witness ==
    /\ pc = "done" /\ Len(auths) = 1 /\ auths[1].ret = "False"
    /\ Truthy(start.session_id)

\* C5: a dispatch whose first transport call fails and whose forced
\* reauthentication fails too ends with the authentication failure, without
\* a second transport call, and leaves the session Unauthenticated.
C5_ForcedAuthFailureAborts ==
    (Len(calls) >= 1 /\ calls[1].outcome \in CommandFailures
        /\ Len(auths) = 2 /\ auths[2].ret # "True")
        => (pc = "done" /\ result.exit = "auth_forced" /\ Len(calls) = 1
            /\ result.value = FailValue(op.name)
            /\ ~Authenticated(session_id, last_auth, now))

C5_Witness ==
    /\ pc = "done" /\ Len(calls) = 1 /\ calls[1].outcome \in CommandFailures
    /\ Len(auths) = 2 /\ auths[2].ret = "False" /\ start.valid

\* A call of execute that the registry rejects: unknown command, a declared
\* parameter missing, an undeclared parameter, or a value its declared type
\* does not accept.  (Every parameter of the registry is required and has no
\* default.)
CallerError(command, params) ==
    \/ command \notin DOMAIN CAMERA_COMMANDS
    \/ LET specs == CAMERA_COMMANDS[command].params IN
       \/ \E i \in 1..Len(specs) : specs[i].name \notin DOMAIN params
       \/ \E k \in DOMAIN params : \A i \in 1..Len(specs) : specs[i].name # k
       \/ \E i \in 1..Len(specs) :
             /\ specs[i].name \in DOMAIN params
             /\ coerce_param_value(specs[i].name, params[specs[i].name], specs[i]) = None

\* C6: a call of execute with an unknown command, a missing required
\* parameter, an undeclared parameter or a value that cannot be coerced
\* makes no command transport call and no forced reauthentication, and once
\* its authenticate has returned True it ends with the ValueError at once.
C6_CallerErrorsAreTerminal ==
    (op.name = "execute" /\ CallerError(op.command, op.params))
        => /\ calls = <<>>
           /\ ForcedAuths = 0
           /\ Len(auths) = 1
           /\ pc # "request"
           /\ (pc = "done" /\ auths[1].ret = "True")
                 => (result.value = "ValueError"
                     /\ result.exit \in {"unknown_command", "missing",
                                         "unexpected", "invalid"})

C6_Witness ==
    /\ pc = "done" /\ op.name = "execute" /\ result.exit = "unexpected"
    /\ calls = <<>>

\* The instance's target host resolves (always, on the script backend).
HostResolves ==
    backend = "script" \/ HostProperty(camera_alias, host_override) # None

\* C7 as stated: authenticate(force=False) on an Authenticated session
\* returns True, makes no exchange and leaves token and issued-at as they
\* were; every other call of authenticate makes exactly one exchange.
C7_NoOpOrOneExchange ==
    acall # NoCall =>
        LET c == acall[1] IN
        IF ~c.force /\ Authenticated(c.pre_session_id, c.pre_last_auth, c.pre_now)
        THEN /\ c.ret = "True" /\ c.exchanges = 0
             /\ session_id = c.pre_session_id /\ last_auth = c.pre_last_auth
        ELSE c.exchanges = 1

\* C7 as amended: ... every other call of authenticate makes exactly one
\* exchange, except that CameraControlAPI.authenticate, when no host
\* override is set and the alias is not in CAMERA_HOSTS, raises ValueError
\* before any exchange and leaves the session as it was.
C7_NoOpOrOneExchangeIfHostResolves ==
    acall # NoCall =>
        LET c == acall[1] IN
        IF ~c.force /\ Authenticated(c.pre_session_id, c.pre_last_auth, c.pre_now)
        THEN /\ c.ret = "True" /\ c.exchanges = 0
             /\ session_id = c.pre_session_id /\ last_auth = c.pre_last_auth
        ELSE IF HostResolves THEN c.exchanges = 1
        ELSE /\ c.exchanges = 0 /\ c.ret = "ValueError"
             /\ session_id = c.pre_session_id /\ last_auth = c.pre_last_auth

C7_Witness ==
    /\ acall # NoCall
    /\ ~acall[1].force /\ acall[1].exchanges = 0 /\ acall[1].ret = "True"
    /\ acall[1].pre_now - acall[1].pre_last_auth = SESSION_TIMEOUT

\* C8: when authenticate returns True the session is Authenticated: the
\* stored token is present and not empty, and if an exchange was made the
\* token is the one the exchange returned and issued-at is the current time.
C8_SuccessMeansAuthenticated ==
    (acall # NoCall /\ acall[1].ret = "True")
        => /\ Truthy(session_id)
           /\ Authenticated(session_id, last_auth, now)
           /\ acall[1].exchanges = 1
                 => (session_id = acall[1].token /\ last_auth = now)

C8_Witness ==
    /\ acall # NoCall /\ acall[1].ret = "True" /\ acall[1].exchanges = 1
    /\ Truthy(acall[1].pre_session_id)
    /\ acall[1].pre_session_id # session_id
    /\ now > acall[1].pre_now

\* C9: when the exchange of an authenticate call fails (transport failure,
\* malformed or non-object response, empty or missing token) the call
\* returns False and the session is Unauthenticated afterwards, also when
\* the call was forced over a valid session.
C9_FailedExchangeUnauthenticates ==
    (acall # NoCall /\ acall[1].exchanges = 1 /\ ~TokenReply(acall[1].reply))
        => (acall[1].ret = "False" /\ ~Authenticated(session_id, last_auth, now))

\* A forced authenticate whose exchange failed has left a valid session.
TokenSurvivesFailedExchange ==
    /\ acall # NoCall /\ acall[1].force /\ acall[1].exchanges = 1
    /\ ~TokenReply(acall[1].reply)
    /\ Authenticated(session_id, last_auth, now)

\* The same on the script backend alone.
FailedExchangeUnauthenticatesScript ==
    (backend = "script" /\ acall # NoCall /\ acall[1].exchanges = 1
        /\ ~TokenReply(acall[1].reply))
        => (acall[1].ret = "False" /\ ~Authenticated(session_id, last_auth, now))

\* C10: authenticate(force=False) on a session with a token issued at t0
\* makes no exchange at any time t with t - t0 <= timeout, and makes one at
\* any t with t - t0 > timeout.
C10_Freshness ==
    (acall # NoCall /\ ~acall[1].force /\ Truthy(acall[1].pre_session_id))
        => (acall[1].exchanges = 0
               <=> acall[1].pre_now - acall[1].pre_last_auth <= SESSION_TIMEOUT)

C10_Witness ==
    /\ acall # NoCall /\ ~acall[1].force /\ Truthy(acall[1].pre_session_id)
    /\ acall[1].pre_now - acall[1].pre_last_auth = SESSION_TIMEOUT + 1
    /\ acall[1].exchanges = 1

\* The session at exactly t0 + timeout is still used without an exchange.
FreshAtLimitReached ==
    /\ acall # NoCall /\ ~acall[1].force /\ Truthy(acall[1].pre_session_id)
    /\ acall[1].pre_now - acall[1].pre_last_auth = SESSION_TIMEOUT
    /\ acall[1].exchanges = 0

\* A dispatch is running or has just finished, and it was the first use of
\* the session since the instance was built or its session was wiped.
AfterInvalidation == pc # "idle" /\ start.invalidated # ""

\* C11 as stated: after invalidate(), a target switch, or construction, the
\* next dispatch makes an authentication exchange before any command
\* transport call, whether or not the wiped session was stale by time.
C11_InvalidationForcesExchange ==
    AfterInvalidation => (Len(auths) >= 1 /\ auths[1].exchanges = 1)

\* C11 as amended: ... the next dispatch makes an authentication exchange
\* before any command transport call, unless CameraControlAPI has no host
\* override and an alias outside CAMERA_HOSTS: that dispatch raises
\* ValueError with neither an exchange nor a transport call.
C11_InvalidationForcesExchangeIfHostResolves ==
    AfterInvalidation =>
        /\ Len(auths) >= 1
        /\ IF HostResolves THEN auths[1].exchanges = 1
           ELSE /\ auths[1].exchanges = 0 /\ calls = <<>>
                /\ pc = "done" /\ result.exit = "auth_raised"

C11_Witness ==
    /\ AfterInvalidation /\ start.invalidated = "valid"
    /\ auths[1].exchanges = 1 /\ calls # <<>>

\* The dispatch after a switch to an unknown alias makes no exchange.
NoExchangeAfterInvalidationReached ==
    /\ AfterInvalidation /\ start.invalidated = "valid" /\ ~HostResolves
    /\ auths[1].exchanges = 0 /\ calls = <<>>

\* A dispatch has returned or raised without the command having succeeded.
FailedDispatch == pc = "done" /\ result.exit # "ok"

\* The session is the Authenticated one the dispatch started with.
SameAsStart ==
    /\ start.valid
    /\ session_id = start.session_id /\ last_auth = start.last_auth

\* The session was issued by a successful exchange of this dispatch.
IssuedInDispatch ==
    \E i \in 1..Len(auths) :
        /\ auths[i].exchanges = 1 /\ auths[i].ret = "True"
        /\ session_id = auths[i].token
        /\ last_auth >= auths[i].pre_now

\* C12 as stated: after a failed dispatch the session is either exactly the
\* Authenticated session (same token and issued-at) the dispatch started
\* with, or Unauthenticated.
C12_NoPartialState ==
    FailedDispatch =>
        (SameAsStart \/ ~Authenticated(session_id, last_auth, now))

\* C12 as amended: ... or Unauthenticated, or the Authenticated session
\* that a successful authentication exchange of this dispatch issued before
\* the command failed.
C12_NoPartialStateButReissued ==
    FailedDispatch =>
        \/ SameAsStart
        \/ ~Authenticated(session_id, last_auth, now)
        \/ IssuedInDispatch

C12_Witness ==
    /\ FailedDispatch /\ result.exit = "gave_up"
    /\ start.valid /\ ~SameAsStart
    /\ Authenticated(session_id, last_auth, now) /\ IssuedInDispatch

\* A caller error on CameraControlAPI after the initial exchange succeeded.
ReissuedThenCallerErrorReached ==
    /\ FailedDispatch /\ backend = "api" /\ result.exit = "missing"
    /\ ~start.valid /\ Authenticated(session_id, last_auth, now)

\* Parameter resolution has been applied to (input.param_specs, input.params).
ResolvedParams == input.fn = "resolve" /\ output # NoOutput

Declared == {input.param_specs[i].name : i \in 1..Len(input.param_specs)}

\* The declared parameters that are required, have no default and are absent.
MissingAt ==
    {i \in 1..Len(input.param_specs) :
        LET spec == input.param_specs[i] IN
        /\ "required" \in DOMAIN spec => spec.required
        /\ "default" \notin DOMAIN spec
        /\ spec.name \notin DOMAIN input.params}

\* The declared parameters whose supplied value fails type coercion.
InvalidAt ==
    {i \in 1..Len(input.param_specs) :
        LET spec == input.param_specs[i] IN
        /\ spec.name \in DOMAIN input.params
        /\ coerce_param_value(spec.name, input.params[spec.name], spec) = None}

\* The declared parameters that are absent and have a default.
DefaultedAt ==
    {i \in 1..Len(input.param_specs) :
        LET spec == input.param_specs[i] IN
        spec.name \notin DOMAIN input.params /\ "default" \in DOMAIN spec}

First(S) == CHOOSE i \in S : \A j \in S : i <= j

\* C13 as stated: an accepted resolution yields a map whose keys are exactly
\* the declared parameter names, omitted optional ones included.
C13_ExactlyDeclaredKeys ==
    (ResolvedParams /\ output[1].r.error = "")
        => DOMAIN output[1].r.coerced = Declared

\* C13 as amended: an accepted resolution yields a map whose keys are
\* exactly the declared names that were supplied or have a default; a
\* declared optional parameter without default that was omitted has no key.
C13_SuppliedOrDefaultedKeys ==
    (ResolvedParams /\ output[1].r.error = "")
        => DOMAIN output[1].r.coerced =
             {n \in Declared : n \in DOMAIN input.params
                 \/ \E i \in DefaultedAt : input.param_specs[i].name = n}

C13_Witness ==
    /\ ResolvedParams /\ output[1].r.error = ""
    /\ \E n \in Declared : n \notin DOMAIN output[1].r.coerced
    /\ DefaultedAt # {} /\ DOMAIN output[1].r.coerced # {}

\* C14 as stated: resolution fails with the missing-parameter error iff a
\* declared required parameter without default is absent, and it reports
\* the first such parameter in declaration order.
C14_MissingIffRequiredAbsent ==
    ResolvedParams =>
        /\ output[1].r.error = "missing" <=> MissingAt # {}
        /\ output[1].r.error = "missing"
             => output[1].r.name = input.param_specs[First(MissingAt)].name

\* C14 as amended: ... iff a declared required parameter without default is
\* absent and no parameter declared before the first such one was supplied
\* with a value that fails coercion (that value's error is raised instead).
C14_MissingUnlessInvalidBefore ==
    ResolvedParams =>
        /\ output[1].r.error = "missing"
             <=> (MissingAt # {} /\ \A j \in InvalidAt : j > First(MissingAt))
        /\ output[1].r.error = "missing"
             => output[1].r.name = input.param_specs[First(MissingAt)].name

C14_Witness ==
    /\ ResolvedParams /\ output[1].r.error = "missing"
    /\ First(MissingAt) = 2 /\ output[1].r.name = "B"
    /\ input.params # NoParams

\* An invalid value of an earlier parameter hides a missing later one.
InvalidHidesMissingReached ==
    /\ ResolvedParams /\ output[1].r.error = "invalid"
    /\ MissingAt # {}

\* C15 as stated: resolution fails with the unexpected-parameter error iff
\* an undeclared name is supplied, the error being raised only once no
\* declared parameter is missing.
C15_UnexpectedIffUndeclared ==
    ResolvedParams =>
        (output[1].r.error = "unexpected"
            <=> (DOMAIN input.params \ Declared # {} /\ MissingAt = {}))

\* C15 as amended: ... iff an undeclared name is supplied and the loop over
\* the declared parameters raised neither a missing-parameter error nor the
\* error of a supplied value that fails coercion.
C15_UnexpectedAfterLoop ==
    ResolvedParams =>
        (output[1].r.error = "unexpected"
            <=> (/\ DOMAIN input.params \ Declared # {}
                 /\ MissingAt = {} /\ InvalidAt = {}))

C15_Witness ==
    /\ ResolvedParams /\ output[1].r.error = "unexpected"
    /\ output[1].by = "main"
    /\ Len(input.param_specs) = 2 /\ DOMAIN input.params = {"A", "B", "Z"}

\* C16: an absent parameter with a default resolves to the coercion of the
\* default: "1"/"0" for a boolean default; an invalid default is rejected.
C16_DefaultIsCoerced ==
    ResolvedParams =>
        \A i \in DefaultedAt :
            LET spec == input.param_specs[i]
                c == coerce_param_value(spec.name, spec.default, spec)
            IN /\ (c = None /\ \A j \in MissingAt \cup InvalidAt : j > i)
                    => output[1].r.error = "invalid"
               /\ (c # None /\ spec.name \in DOMAIN output[1].r.coerced)
                    => output[1].r.coerced[spec.name] = c[1]

\* What the code does with a default: the wire value is str(default).
DefaultIsRendered ==
    (ResolvedParams /\ output[1].r.error = "")
        => \A i \in DefaultedAt :
              output[1].r.coerced[input.param_specs[i].name]
                  = input.param_specs[i].default

\* coerce_param_value has been applied to a value of a bool parameter.
CoercedBool == input.fn = "coerce" /\ output # NoOutput

\* The inputs the testable property lists.
ListedTrue ==
    {<<"1">>, <<"t", "r", "u", "e">>, <<"T">>, <<"y", "e", "s">>, <<"Y">>,
     <<"o", "n">>}
ListedFalse ==
    {<<"0">>, <<"f", "a", "l", "s", "e">>, <<"n", "o">>, <<"o", "f", "f">>}

\* The two sets of section 4.2.
TruthySet == ListedTrue \cup {<<"t">>, <<"y">>}
FalsySet == ListedFalse \cup {<<"f">>, <<"n">>}

\* C17 as stated: "1", "true", "T", "yes", "Y", "on" coerce to "1"; "0",
\* "false", "no", "off" coerce to "0"; every other string fails.
C17_ListedWordsOnly ==
    CoercedBool =>
        output[1].r = IF input.value \in ListedTrue THEN Some(<<"1">>)
                      ELSE IF input.value \in ListedFalse THEN Some(<<"0">>)
                      ELSE None

\* C17 as amended: the listed inputs coerce as stated; every string that
\* is not, in some mix of upper and lower case, one of 1, true, t, yes, y,
\* on, 0, false, f, no, n, off fails.
C17_ListedWordsAndOthersFail ==
    CoercedBool =>
        /\ input.value \in ListedTrue => output[1].r = Some(<<"1">>)
        /\ input.value \in ListedFalse => output[1].r = Some(<<"0">>)
        /\ (\A w \in TruthySet \cup FalsySet : input.value \notin CaseVariants(w))
              => output[1].r = None

C17_Witness ==
    /\ CoercedBool /\ input.value = <<"T">> /\ output[1].r = Some(<<"1">>)

\* A word outside the list is accepted.
UnlistedWordAcceptedReached ==
    /\ CoercedBool /\ input.value = <<"F", "a", "L", "s", "e">>
    /\ output[1].r = Some(<<"0">>)

\* C18: a value coerces to "1" iff its lower-cased form is in {1, true, t,
\* yes, y, on}, to "0" iff it is in {0, false, f, no, n, off}, and fails
\* otherwise; the sets are disjoint; surrounding whitespace is rejected.
C18_CaseInsensitiveMembership ==
    /\ TruthySet \cap FalsySet = {}
    /\ CoercedBool =>
        /\ output[1].r = Some(<<"1">>) <=> Lower(input.value) \in TruthySet
        /\ output[1].r = Some(<<"0">>) <=> Lower(input.value) \in FalsySet
        /\ output[1].r = None
             <=> Lower(input.value) \notin TruthySet \cup FalsySet
        /\ Strip(input.value) # input.value => output[1].r = None

C18_Witness ==
    /\ CoercedBool /\ input.value = <<"o", "f", "f", "\n">>
    /\ output[1].r = None

\* build_query has been applied to the arguments.
BuiltQuery == input.fn = "build_query" /\ output # NoOutput

\* The value the last of the four sources that has the key gives it.
LastSource(k) ==
    IF input.include_token_params /\ k \in {"tokenoverride", "_"}
    THEN (IF k = "tokenoverride" THEN <<"1">> ELSE <<"0">>)
    ELSE IF k \in DOMAIN input.dynamic_params THEN input.dynamic_params[k]
    ELSE IF k \in DOMAIN input.command.static_params
    THEN input.command.static_params[k]
    ELSE IF k = "session" THEN input.session
    ELSE input.command.action

\* C19: build_query merges session and action, static, dynamic and override
\* parameters in this order, a later source winning every collision; with
\* overrides included "tokenoverride" and "_" have their fixed values;
\* without, no override key is added.
C19_MergePrecedence ==
    BuiltQuery =>
        LET q == output[1].r
            own == {"session", "action"}
                     \cup DOMAIN input.command.static_params
                     \cup DOMAIN input.dynamic_params
        IN /\ DOMAIN q = IF input.include_token_params
                         THEN own \cup {"tokenoverride", "_"} ELSE own
           /\ \A k \in DOMAIN q : q[k] = LastSource(k)
           /\ input.include_token_params
                => (q["tokenoverride"] = <<"1">> /\ q["_"] = <<"0">>)

C19_Witness ==
    /\ BuiltQuery /\ input.include_token_params
    /\ "tokenoverride" \in DOMAIN input.dynamic_params
    /\ "_" \in DOMAIN input.command.static_params
    /\ "Cam_id" \in DOMAIN input.dynamic_params
    /\ "Cam_id" \in DOMAIN input.command.static_params
    /\ output[1].r["Cam_id"] = <<"d">>
    /\ output[1].r["tokenoverride"] = <<"1">>

\* Without the overrides a parameter named like one keeps its own value.
OwnTokenOverrideKeptReached ==
    /\ BuiltQuery /\ ~input.include_token_params
    /\ "tokenoverride" \in DOMAIN output[1].r
    /\ "_" \notin DOMAIN output[1].r

\* A host override is set: given and not empty.
OverrideSet == input.host # None /\ input.host[1] # ""

\* The alias that is resolved: for resolve_host the one given, the default
\* one when none (or an empty one) is; for CameraControlAPI the instance's.
AliasUsed ==
    IF input.fn = "host" THEN output[1].alias
    ELSE IF input.camera # None /\ input.camera[1] # "" THEN input.camera[1]
    ELSE DEFAULT_CAMERA

Resolution == IF input.fn = "host" THEN output[1].r ELSE output[1].r.host

\* C20: the target host is the host override whenever one is set, even with
\* an unknown alias; otherwise the alias table's entry for the alias, the
\* default alias when none is given; with no override and an alias outside
\* the table, resolution fails with an error that lists the known aliases
\* and no request is sent.
C20_Addressing ==
    (input.fn \in {"resolve_host", "host"} /\ output # NoOutput) =>
        IF OverrideSet THEN Resolution = Some(input.host[1])
        ELSE IF AliasUsed \in {"FLIR1", "FLIR2"}
        THEN Resolution = Some(IF AliasUsed = "FLIR1" THEN FLIR1_IP ELSE FLIR2_IP)
        ELSE /\ Resolution = None
             /\ input.fn = "resolve_host" =>
                  /\ output[1].r.error # None
                  /\ output[1].r.error[1].alias = AliasUsed
                  /\ {output[1].r.error[1].known[i] :
                         i \in 1..Len(output[1].r.error[1].known)}
                       = DOMAIN CAMERA_HOSTS
             /\ input.fn = "host" =>
                  /\ output[1].auth.ret = "ValueError"
                  /\ output[1].auth.exchanges = 0

C20_Witness ==
    /\ input.fn = "resolve_host" /\ output # NoOutput
    /\ input.camera = Some("FLIR3") /\ input.host = Some("10.0.0.9")
    /\ output[1].r.host = Some("10.0.0.9")

\* An unknown alias without override: the error, and no exchange.
UnknownCameraReached ==
    /\ input.fn = "host" /\ output # NoOutput
    /\ input.camera = Some("FLIR3") /\ input.host = Some("")
    /\ output[1].r = None /\ output[1].auth.exchanges = 0

SwitchedInFlight ==
    /\ backend = "api" /\ invalidated \in {"resolve", "request"}
    /\ \/ pc = "request"
       \/ pc = "done" /\ result.exit \in {"ok", "transport", "unknown_camera"}

\* The token the authentication step of the running execute left.
TokenAtAuthentication ==
    IF auths[1].exchanges = 1 THEN auths[1].token ELSE start.session_id

\* The host that issued it.
IssuerAtAuthentication ==
    IF auths[1].exchanges = 1 THEN auths[1].host ELSE start.issuer

\* C22: when set_camera / invalidate_session runs between execute's
\* authentication step and its request step, the request is built with an
\* absent token (the switch ran before the query was built), or it carries
\* the token issued before the switch, which the instance has dropped, and
\* is sent to the target the switch chose; both states are reachable, the
\* second with a host other than the token's issuer.
C22_InFlightSwitchIsUnsafe ==
    SwitchedInFlight =>
        /\ IF invalidated = "resolve" THEN query["session"] = None
           ELSE query["session"] = TokenAtAuthentication /\ session_id = None
        /\ \A i \in 1..Len(calls) :
              /\ calls[i].token = query["session"]
              /\ Some(calls[i].host) = HostProperty(camera_alias, host_override)

C22_Witness ==
    /\ SwitchedInFlight /\ calls # <<>>
    /\ calls[1].token # None
    /\ Some(calls[1].host) # IssuerAtAuthentication

\* The request built with an absent token.
AbsentTokenRequestReached ==
    /\ SwitchedInFlight /\ calls # <<>>
    /\ calls[1].token = None

\* C23: in get_speed, get_zoom and get_degree_pos, when the script exits
\* successfully on the first attempt but its output holds no JSON object, a
\* forced re-authentication is made before the second attempt.
C23_NoJsonForcesReauthentication ==
    (backend = "script" /\ op.name \in Getters
        /\ Len(calls) >= 2 /\ calls[1].outcome = "nojson")
        => \E i \in 1..Len(auths) : auths[i].force

\* What the code does: the second attempt follows with no authenticate call
\* in between, carrying the token of the first.
NoJsonRetriesWithSameToken ==
    (backend = "script" /\ op.name \in Getters
        /\ Len(calls) >= 2 /\ calls[1].outcome = "nojson")
        => (Len(auths) = 1 /\ calls[2].token = calls[1].token)

\* C24: get_degree_pos returns a two-element pair on every path, with
\* (None, None) for every failure.
C24_AlwaysAPair ==
    (pc = "done" /\ op.name = "get_degree_pos")
        => IF result.exit = "ok" THEN result.value = "value"
           ELSE result.value = "(None, None)"

\* Both attempts print no JSON object: the method ends without a return.
BareNoneReached ==
    /\ pc = "done" /\ op.name = "get_degree_pos"
    /\ result.exit = "fallthrough" /\ result.value = "None"

\* An execute with an unknown command or bad parameters, begun on a session
\* that was absent or stale.
CallerErrorOnStaleSession ==
    /\ op.name = "execute" /\ CallerError(op.command, op.params)
    /\ ~start.valid

\* The caller error has been raised.
CallerErrorRaised ==
    /\ pc = "done"
    /\ result.exit \in {"unknown_command", "missing", "unexpected", "invalid"}

\* C25 as stated: execute authenticates before it resolves the command and
\* its parameters: a call with an unknown command or invalid parameters on
\* a stale or absent session still makes one authentication exchange, and
\* on its success stores the new token, before the caller error is raised.
C25_AuthenticatesBeforeResolving ==
    CallerErrorOnStaleSession =>
        /\ Len(auths) = 1 /\ auths[1].exchanges = 1
        /\ auths[1].ret = "True" => session_id = auths[1].token
        /\ CallerErrorRaised => auths[1].ret = "True"

\* C25 as amended: ... still makes one authentication exchange, and on its
\* success stores the new token, before the caller error is raised, unless
\* no host override is set and the alias is not in CAMERA_HOSTS: then
\* authenticate raises the unknown-alias ValueError with no exchange and
\* the caller error is never raised.
C25_AuthenticatesBeforeResolvingIfHostResolves ==
    CallerErrorOnStaleSession =>
        /\ Len(auths) = 1
        /\ auths[1].ret = "True" => session_id = auths[1].token
        /\ CallerErrorRaised => auths[1].ret = "True"
        /\ IF HostProperty(camera_alias, host_override) # None
           THEN auths[1].exchanges = 1
           ELSE auths[1].exchanges = 0 /\ auths[1].ret = "ValueError"
                /\ ~CallerErrorRaised

C25_Witness ==
    /\ CallerErrorOnStaleSession /\ CallerErrorRaised
    /\ op.command = "reboot"
    /\ start.session_id # None /\ start.session_id # session_id
    /\ auths[1].exchanges = 1 /\ session_id = auths[1].token

Exchanges(forced) ==
    Cardinality({i \in 1..Len(auths) :
                    auths[i].exchanges = 1 /\ auths[i].force = forced})

\* C26: whatever the transport and the authentication exchanges answer, a
\* dispatch ends after at most two command transport calls and at most two
\* authentication exchanges: at most one non-forced exchange, at entry, and
\* at most one forced exchange, after the first failure.
C26_BoundedWork ==
    /\ Len(calls) <= 2
    /\ Len(auths) <= 2
    /\ Exchanges(FALSE) <= 1 /\ Exchanges(TRUE) <= 1
    /\ \A i \in 1..Len(auths) :
          /\ auths[i].force <=> i = 2
          /\ auths[i].force => (Len(calls) >= 1 /\ calls[1].outcome \in CommandFailures)
    /\ pc = "attempt" => Len(calls) <= 1
    /\ pc \in {"resolve", "request"} => calls = <<>>

C26_Witness ==
    /\ pc = "done" /\ Len(calls) = 2
    /\ Exchanges(FALSE) = 1 /\ Exchanges(TRUE) = 1
    /\ result.exit = "gave_up"

\* The host that issued the token of the i-th transport call of the
\* dispatch: that of the last exchange before the call, or the issuer of
\* the session the dispatch found.
IssuerOfCall(i) ==
    LET j == IF i <= Len(auths) THEN i ELSE Len(auths) IN
    IF auths[j].exchanges = 1 THEN auths[j].host
    ELSE IF j = 1 THEN start.issuer ELSE IssuerAtAuthentication

\* C27: with serialized calls, every command transport call carries a token
\* issued by the host the call is addressed to, whatever set_camera and
\* set_camera_ip calls come between the dispatches.
C27_TokenStaysWithItsHost ==
    \A i \in 1..Len(calls) :
        /\ Truthy(calls[i].token)
        /\ IssuerOfCall(i) = Some(calls[i].host)

\* The dispatch after a switch from FLIR2 that wiped a valid session.
C27_Witness ==
    /\ backend = "script" /\ start.invalidated = "valid"
    /\ calls # <<>> /\ calls[1].host = FLIR1_IP
    /\ auths[1].exchanges = 1 /\ IssuerOfCall(1) = Some(FLIR1_IP)

\* set_camera_ip left the three fields as they were.
FieldsUnchanged ==
    /\ output[1].r.camera_ip = input.camera_ip
    /\ output[1].r.session_id = input.session_id
    /\ output[1].r.last_auth_time = input.last_auth_time

\* C28: set_camera_ip with an empty address raises ValueError and leaves
\* camera_ip, session_id and last_auth_time unchanged; with the current
\* address it leaves session_id and last_auth_time unchanged, so a valid
\* session stays valid; with a different address it sets camera_ip and
\* clears session_id and last_auth_time.
C28_StateChangesOnlyOnSwitch ==
    (input.fn = "set_camera_ip" /\ output # NoOutput) =>
        IF input.ip_address = ""
        THEN output[1].r.raised = "ValueError" /\ FieldsUnchanged
        ELSE /\ output[1].r.raised = ""
             /\ IF input.ip_address = input.camera_ip
                THEN /\ FieldsUnchanged
                     /\ Authenticated(input.session_id, input.last_auth_time, now)
                          => Authenticated(output[1].r.session_id,
                                           output[1].r.last_auth_time, now)
                ELSE /\ output[1].r.camera_ip = input.ip_address
                     /\ output[1].r.session_id = None
                     /\ output[1].r.last_auth_time = 0

C28_Witness ==
    /\ input.fn = "set_camera_ip" /\ output # NoOutput
    /\ input.ip_address = input.camera_ip
    /\ Authenticated(input.session_id, input.last_auth_time, now)
    /\ Authenticated(output[1].r.session_id, output[1].r.last_auth_time, now)

\* A real switch clears a valid session.
SwitchClearsSessionReached ==
    /\ input.fn = "set_camera_ip" /\ output # NoOutput
    /\ input.ip_address = FLIR1_IP /\ input.camera_ip = FLIR2_IP
    /\ input.session_id = Some(<<"a">>) /\ output[1].r.session_id = None

\* C29: after set_camera(camera_alias=a) with a known alias a, every
\* authentication exchange and every command request that follows is
\* addressed to CAMERA_HOSTS[a].
C29_AddressedToAliasHost ==
    switched # None =>
        /\ (acall # NoCall /\ acall[1].exchanges > 0)
              => acall[1].host = Some(CAMERA_HOSTS[switched[1]])
        /\ \A i \in DOMAIN auths :
              auths[i].exchanges > 0
                  => auths[i].host = Some(CAMERA_HOSTS[switched[1]])
        /\ \A i \in DOMAIN calls : calls[i].host = CAMERA_HOSTS[switched[1]]

\* With no host override in place the alias decides the host.
AliasHostReached ==
    /\ switched = Some("FLIR1") /\ host_override = None
    /\ Len(calls) > 0 /\ calls[1].host = CAMERA_HOSTS["FLIR1"]

\* A convenience wrapper's call of execute has ended.
WrapperDone ==
    /\ pc = "done" /\ op.name = "execute"
    /\ WrapperOf(op.command, op.params) # ""

\* C30: the convenience wrappers never raise on a failed dispatch:
\* authentication failure, unknown alias, parameter validation failure and
\* transport failure all become None (getters) or False (setters), and a
\* setter returns True exactly when execute returned without raising.
C30_WrappersNeverRaise ==
    WrapperDone =>
        LET name == WrapperOf(op.command, op.params)
            w == Wrapper(name, result)
        IN /\ result.exit # "ok" =>
                 /\ w.raised = ""
                 /\ w.value = IF name = "set_zoom" THEN "False" ELSE "None"
           /\ name = "set_zoom" => (w.value = "True" <=> result.exit = "ok")

\* Every failure of the dispatch other than the exception authenticate lets
\* through is converted.
WrappersConvertHandledFailures ==
    (WrapperDone /\ result.exit \notin {"ok", "auth_raised"}) =>
        LET name == WrapperOf(op.command, op.params)
            w == Wrapper(name, result)
        IN /\ w.raised = ""
           /\ w.value = IF name = "set_zoom" THEN "False" ELSE "None"

\* The unknown-alias ValueError of authenticate is one of the converted
\* failures.
UnknownAliasConverted ==
    /\ WrapperDone /\ result.exit = "auth_raised" /\ result.value = "ValueError"
    /\ Wrapper(WrapperOf(op.command, op.params), result).raised = ""

\* The wrapper raises what authenticate raised on a reply that is no object.
WrapperRaisesReached ==
    /\ WrapperDone /\ result.exit = "auth_raised"
    /\ Wrapper(WrapperOf(op.command, op.params), result).raised = "AttributeError"

\* The connection attempts wait_for_host has made that did not connect.
FailedAttempts == {i \in DOMAIN calls : calls[i].outcome # "connected"}

\* wait_for_host has ended, returning ("None") or raising.
Waited(r) ==
    /\ input.fn = "wait_for_host"
    /\ output = Some([by |-> "wait_for_host", r |-> r])

\* C31: wait_for_host with retries <= 0 returns without any connection
\* attempt; with retries > 0 it makes its attempts one at a time, returns at
\* the first attempt that connects, never makes more than retries attempts,
\* and raises RuntimeError exactly when all retries attempts fail.
C31_BoundedProbe ==
    input.fn = "wait_for_host" =>
        IF input.retries <= 0
        THEN /\ calls = <<>>
             /\ output # NoOutput => Waited("None")
        ELSE /\ Len(calls) <= input.retries
             /\ pc = "connect" => attempt = Len(calls) + 1
             /\ \A i \in DOMAIN calls :
                   calls[i].outcome = "connected"
                       => i = Len(calls) /\ Waited("None")
             /\ Waited("None") =>
                   Len(calls) > 0 /\ calls[Len(calls)].outcome = "connected"
             /\ Waited("RuntimeError")
                   <=> Cardinality(FailedAttempts) = input.retries

\* The last of several attempts connects, after the earlier ones failed.
C31_Witness ==
    /\ Waited("None") /\ input.retries = MaxRetries
    /\ Len(calls) = MaxRetries /\ Cardinality(FailedAttempts) = MaxRetries - 1

\* All attempts failed and RuntimeError was raised.
ProbeExhaustedReached ==
    /\ Waited("RuntimeError") /\ input.retries = 2
    /\ Len(calls) = 2 /\ calls[1].outcome = "OSError"

\* No attempt is made with retries <= 0.
NoProbeReached == Waited("None") /\ input.retries = 0 /\ calls = <<>>

\* A negative delay ends the first pass before any attempt.
BadDelayReached == Waited("ValueError") /\ calls = <<>>

=============================================================================
